---- MODULE Spec2Model ----
(***************************************************************************)
(* DatabaseManager of src/bd.py: the SQLite store (five tables and the     *)
(* sqlite_sequence table of their AUTOINCREMENT keys), and one action per  *)
(* public operation.  Every operation opens its own connection, runs its   *)
(* statements inside `with conn:` and returns or raises.                   *)
(*                                                                         *)
(* Money is kept in integer cents (20.00 is 2000).  A Python dict is a     *)
(* function from its keys to its values.  SQL NULL / Python None is the    *)
(* string "NULL" and only occurs in text columns.  now is the clock that   *)
(* CURRENT_TIMESTAMP reads, as <<day, time of day>>; inflight is the       *)
(* request of a second thread that has started and not yet returned.       *)
(***************************************************************************)
EXTENDS Integers, Sequences, FiniteSets, TLC

VARIABLES db, sqlite_sequence, openConns, last, now, inflight

vars == <<db, sqlite_sequence, openConns, last, now, inflight>>

NULL == "NULL"

\* ---------------------------------------------------------------- bounds
\* largest identifier a committed AUTOINCREMENT sequence may reach
MaxRowid == 2
\* longest list handed to batch_create_products
MaxBatch == 3
\* largest price (cents) a bulk update may produce
MaxPrice == 2420
\* connections that may be open and not yet finalized at one time
MaxOpenConns == 1
\* last day, and last time of a day, the clock reaches
MaxClock == 1

\* ------------------------------------------------------------ arithmetic
Max(a, b) == IF a >= b THEN a ELSE b

\* SQLite's integer division truncates toward zero
TruncDiv(a, b) == IF a >= 0 THEN a \div b ELSE -((-a) \div b)

\* ROUND(x, 2) of x = num/100 cents: to the nearest cent, halves away from zero
RoundCents(num) ==
    IF num >= 0 THEN (num + 50) \div 100 ELSE -(((-num) + 50) \div 100)

MaxOf(S) == IF S = {} THEN 0 ELSE CHOOSE m \in S : \A x \in S : x <= m

\* dict.get(key, default)
Get(d, key, default) == IF key \in DOMAIN d THEN d[key] ELSE default

\* ---------------------------------------------------------------- schema
Tables == {"products", "categories", "customers", "orders", "order_items"}

\* truncate_table's whitelist
allowed_tables == {"products", "categories", "customers", "orders", "order_items"}

\* CHECK(status IN (...)) of orders
OrderStatuses == {"pending", "confirmed", "shipped", "delivered", "cancelled"}

\* PRAGMA foreign_keys of a connection returned by get_connection: the script
\* of init_database sets it ON for its own connection only, every later
\* sqlite3.connect starts with SQLite's default
foreign_keys == FALSE

\* a store: the tables' rows by rowid and the AUTOINCREMENT sequences
Store(d, s) == [db |-> d, sqlite_sequence |-> s]

EmptyStore ==
    Store([t \in Tables |-> << >>], [t \in Tables |-> 0])

Rows(st, t) == st.db[t]

Ids(st, t) == DOMAIN st.db[t]

\* rows of order_items that reference product p
ItemsOfProduct(st, p) == {i \in Ids(st, "order_items") : Rows(st, "order_items")[i].product_id = p}

\* the constraints of the schema had products no CHECK on price and stock
RowConstraintsOK_Unchecked(st, t, id, row) ==
    CASE t = "products" -> row.name # NULL
      [] t = "categories" ->
            /\ row.name # NULL
            /\ \A j \in Ids(st, t) \ {id} : Rows(st, t)[j].name # row.name
      [] t = "customers" ->
            /\ row.first_name # NULL
            /\ row.last_name # NULL
            /\ row.email # NULL
            /\ \A j \in Ids(st, t) \ {id} : Rows(st, t)[j].email # row.email
      [] t = "orders" -> row.status \in OrderStatuses
      [] t = "order_items" -> row.quantity > 0

\* NOT NULL, CHECK and UNIQUE constraints of table t for a row about to be
\* stored under rowid id
RowConstraintsOK(st, t, id, row) ==
    CASE t = "products" ->
            /\ row.name # NULL
            /\ row.price >= 0
            /\ row.stock_quantity >= 0
      [] t = "categories" ->
            /\ row.name # NULL
            /\ \A j \in Ids(st, t) \ {id} : Rows(st, t)[j].name # row.name
      [] t = "customers" ->
            /\ row.first_name # NULL
            /\ row.last_name # NULL
            /\ row.email # NULL
            /\ \A j \in Ids(st, t) \ {id} : Rows(st, t)[j].email # row.email
      [] t = "orders" ->
            row.status \in OrderStatuses
      [] t = "order_items" ->
            row.quantity > 0

\* FOREIGN KEY clauses of table t for a row about to be stored
RowForeignKeysOK(st, t, row) ==
    \/ ~foreign_keys
    \/ CASE t = "products" -> row.category_id \in Ids(st, "categories")
         [] t = "orders" -> row.customer_id \in Ids(st, "customers")
         [] t = "order_items" ->
               /\ row.order_id \in Ids(st, "orders")
               /\ row.product_id \in Ids(st, "products")
         [] OTHER -> TRUE

\* the rowid an AUTOINCREMENT table gives its next row
NextRowid(st, t) == Max(st.sqlite_sequence[t], MaxOf(Ids(st, t))) + 1

\* INSERT INTO t: ok = FALSE is sqlite3.IntegrityError, the store unchanged
Insert(st, t, row) ==
    LET id == NextRowid(st, t) IN
    IF RowConstraintsOK(st, t, id, row) /\ RowForeignKeysOK(st, t, row)
    THEN [ok |-> TRUE, id |-> id,
          st |-> Store(
              [st.db EXCEPT ![t] =
                  [i \in DOMAIN @ \cup {id} |-> IF i = id THEN row ELSE @[i]]],
              [st.sqlite_sequence EXCEPT ![t] = id])]
    ELSE [ok |-> FALSE, id |-> 0, st |-> st]

\* a context manager that commits whatever the block did, exception or not
ConnectionExit_AlwaysCommit(before, after, exc) == after

\* Connection.__exit__ of `with conn:`: commit when the block ended without
\* an exception, roll back to the store before the block otherwise.  The
\* connection itself is not closed.
ConnectionExit(before, after, exc) == IF exc = "" THEN after ELSE before

\* conn.rollback() in an except clause: whatever the connection has not
\* committed is undone
rollback(committed, uncommitted) == committed

\* f without the rows outside S
Restrict(f, S) == [i \in S \cap DOMAIN f |-> f[i]]

\* NULL in an integer column (rowids start at 1)
NullId == 0

\* DELETE FROM products WHERE product_id = p.  ON DELETE RESTRICT of
\* order_items.product_id makes it fail when foreign keys are enforced
DeleteProduct(st, p) ==
    IF foreign_keys /\ ItemsOfProduct(st, p) # {} /\ p \in Ids(st, "products")
    THEN [ok |-> FALSE, st |-> st]
    ELSE [ok |-> TRUE,
          st |-> Store([st.db EXCEPT !["products"] = Restrict(@, DOMAIN @ \ {p})],
                       st.sqlite_sequence)]

\* DELETE FROM t, every row, with the ON DELETE actions of the schema when
\* foreign keys are enforced
DeleteAll(st, t) ==
    LET D == st.db
        emptied == [D EXCEPT ![t] = << >>]
        cascaded == {o \in DOMAIN D["orders"] :
                            D["orders"][o].customer_id \in DOMAIN D["customers"]}
        ItemsOf(O) == {i \in DOMAIN D["order_items"] : D["order_items"][i].order_id \in O}
    IN
    IF ~foreign_keys THEN [ok |-> TRUE, st |-> Store(emptied, st.sqlite_sequence)]
    ELSE CASE t = "products" ->
                IF \E i \in DOMAIN D["order_items"] :
                       D["order_items"][i].product_id \in DOMAIN D["products"]
                THEN [ok |-> FALSE, st |-> st]
                ELSE [ok |-> TRUE, st |-> Store(emptied, st.sqlite_sequence)]
           [] t = "categories" ->
                [ok |-> TRUE,
                 st |-> Store(
                     [emptied EXCEPT !["products"] =
                         [i \in DOMAIN @ |->
                             IF @[i].category_id \in DOMAIN D["categories"]
                             THEN [@[i] EXCEPT !.category_id = NullId] ELSE @[i]]],
                     st.sqlite_sequence)]
           [] t = "customers" ->
                [ok |-> TRUE,
                 st |-> Store(
                     [emptied EXCEPT
                         !["orders"] = Restrict(@, DOMAIN @ \ cascaded),
                         !["order_items"] = Restrict(@, DOMAIN @ \ ItemsOf(cascaded))],
                     st.sqlite_sequence)]
           [] t = "orders" ->
                [ok |-> TRUE,
                 st |-> Store(
                     [emptied EXCEPT
                         !["order_items"] = Restrict(@, DOMAIN @ \ ItemsOf(DOMAIN D["orders"]))],
                     st.sqlite_sequence)]
           [] OTHER -> [ok |-> TRUE, st |-> Store(emptied, st.sqlite_sequence)]

\* a truncation that leaves the sequence row of the table in place
DeleteSequence_Kept(st, t) == st

\* DELETE FROM sqlite_sequence WHERE name = t
DeleteSequence(st, t) ==
    Store(st.db, [st.sqlite_sequence EXCEPT ![t] = 0])

\* DEFAULT CURRENT_TIMESTAMP: the text 'YYYY-MM-DD HH:MM:SS' of the clock.  A
\* date text is the sequence of its fields: <<day>> is 'YYYY-MM-DD' and
\* <<day, time>> is 'YYYY-MM-DD HH:MM:SS'
CURRENT_TIMESTAMP == now

\* the columns _insert_json_item names are the item's keys; the others take
\* their DEFAULT
ItemRow(t, item) ==
    CASE t = "orders" ->
            [customer_id |-> item["customer_id"],
             order_date |-> Get(item, "order_date", CURRENT_TIMESTAMP),
             total_amount |-> Get(item, "total_amount", 0),
             status |-> Get(item, "status", "pending")]
      [] t = "customers" ->
            [first_name |-> Get(item, "first_name", NULL),
             last_name |-> Get(item, "last_name", NULL),
             email |-> Get(item, "email", NULL),
             phone |-> Get(item, "phone", NULL)]
      [] OTHER -> item

\* subtotal, GENERATED ALWAYS AS (quantity * unit_price)
subtotal(item) == item.quantity * item.unit_price

\* get_connection: one more open connection; no operation closes it
get_connection(n) == n + 1

\* the columns of the INSERT of create_product / batch_create_products
ProductRow(product) ==
    [name |-> product["name"],
     description |-> Get(product, "description", ""),
     price |-> product["price"],
     stock_quantity |-> Get(product, "stock_quantity", 0),
     category_id |-> product["category_id"],
     created_at |-> CURRENT_TIMESTAMP]

required_fields == {"name", "price", "category_id"}

\* ---------------------------------------------------------------- inputs
CategoryNames == {"x"}

\* product dicts handed to create_product and batch_create_products
GoodProduct1 == [name |-> "a", price |-> 2000, category_id |-> 1]

GoodProduct2 ==
    [name |-> "a", description |-> "d", price |-> 2000, stock_quantity |-> 5,
     category_id |-> 2]

\* rejected by CHECK(price >= 0)
NegativePriceProduct == [name |-> "a", price |-> -100, category_id |-> 1]

\* lacks the required field name
MissingFieldProduct == [price |-> 2000, category_id |-> 1]

ProductDatas ==
    { GoodProduct1, GoodProduct2, NegativePriceProduct, MissingFieldProduct,
      [name |-> "a", price |-> 2000, stock_quantity |-> -1, category_id |-> 1],
      [name |-> NULL, price |-> 2000, category_id |-> 1] }

\* a batch of n products whose entry k is bad (k = 0: none is)
BatchWith(n, k, bad) ==
    [i \in 1 .. n |->
        IF i = k THEN bad ELSE IF i % 2 = 1 THEN GoodProduct1 ELSE GoodProduct2]

Batches ==
    { BatchWith(n, 0, GoodProduct1) : n \in 2 .. MaxBatch }
        \cup UNION { { BatchWith(n, k, NegativePriceProduct),
                       BatchWith(n, k, MissingFieldProduct) } :
                     n \in 2 .. MaxBatch, k \in 1 .. MaxBatch }

UpdateDatas ==
    { [price |-> 2000, product_id |-> 9],
      [price |-> -100],
      [stock_quantity |-> -1, description |-> "d"],
      [product_id |-> 9, created_at |-> 0],
      [name |-> NULL],
      [description |-> "d", stock_quantity |-> 5, category_id |-> 2] }

\* increase_percent as Python hands it to SQLite: an int binds as INTEGER,
\* a float as REAL
Percents ==
    { [type |-> "int", v |-> 10], [type |-> "float", v |-> 10],
      [type |-> "float", v |-> -150], [type |-> "int", v |-> -250] }

CategoryIds == {1, 2}

ProductIds == 1 .. (MaxRowid + 1)

\* the parsed content of the file handed to import_json_to_table, with the
\* table it goes to
OrdersFiles ==
    { [table |-> "orders", data |-> <<[customer_id |-> 1]>>],
      [table |-> "order_items",
       data |-> <<[order_id |-> 1, product_id |-> 1, quantity |-> 2, unit_price |-> 1000]>>],
      [table |-> "order_items",
       data |-> <<[order_id |-> 1, product_id |-> 2, quantity |-> 2, unit_price |-> 1000]>>],
      [table |-> "order_items",
       data |-> <<[order_id |-> 1, product_id |-> 2, quantity |-> 2, unit_price |-> 1000],
                  [order_id |-> 1, product_id |-> 1, quantity |-> 0, unit_price |-> 1000]>>] }

ReportFiles ==
    { [table |-> "orders", data |-> <<[customer_id |-> 1]>>],
      [table |-> "orders", data |-> <<[customer_id |-> 1, status |-> "cancelled"]>>],
      [table |-> "orders", data |-> <<[customer_id |-> 1, status |-> "refunded"]>>],
      [table |-> "order_items",
       data |-> <<[order_id |-> 1, product_id |-> 1, quantity |-> 2, unit_price |-> 1000]>>],
      [table |-> "order_items",
       data |-> <<[order_id |-> 2, product_id |-> 1, quantity |-> 1, unit_price |-> 1000]>>],
      [table |-> "order_items",
       data |-> <<[order_id |-> 1, product_id |-> 2, quantity |-> 2, unit_price |-> 1500]>>],
      [table |-> "order_items",
       data |-> <<[order_id |-> 2, product_id |-> 2, quantity |-> 3, unit_price |-> 500]>>] }

TableNames == allowed_tables \cup {"not_a_table"}

Limits == {1, 5}

SalesCategoryNames == {"x", "y"}

\* orders that take the default order_date, one of them cancelled, an order
\* dated on the next day, and the items of orders 1 and 2
SalesFiles ==
    { [table |-> "orders", data |-> <<[customer_id |-> 1]>>],
      [table |-> "orders", data |-> <<[customer_id |-> 1, status |-> "cancelled"]>>],
      [table |-> "orders", data |-> <<[customer_id |-> 1, order_date |-> <<1, 0>>]>>],
      [table |-> "order_items",
       data |-> <<[order_id |-> 1, product_id |-> 1, quantity |-> 2, unit_price |-> 1000]>>],
      [table |-> "order_items",
       data |-> <<[order_id |-> 2, product_id |-> 2, quantity |-> 3, unit_price |-> 500]>>] }

\* filters of get_products (the first keeps every product), pages and page
\* sizes
ProductFilters ==
    { [search |-> ""], [category_id |-> 1], [min_price |-> 2000, max_price |-> 2000] }

Pages == {1, 2}

PerPages == {1, 2}

\* an order and an item of it
FaultFiles ==
    { [table |-> "orders", data |-> <<[customer_id |-> 1]>>],
      [table |-> "order_items",
       data |-> <<[order_id |-> 1, product_id |-> 1, quantity |-> 2, unit_price |-> 1000]>>] }

\* start_date / end_date left at None (or given as '')
NoDate == << >>

\* start_date and end_date: None, a day 'YYYY-MM-DD', or a day with a time
DateRanges ==
    { <<NoDate, NoDate>>, <<NoDate, <<0, 0>>>>, <<<<0, 0>>, <<0, 1>>>>,
      <<<<0, 1>>, NoDate>>, <<<<1>>, <<1, 0>>>>, <<NoDate, <<0>>>> }

\* ----------------------------------------------------------------- state
NoCall == [op |-> "none", outcome |-> "none"]

\* no request of a second thread is under way
NoRequest == [op |-> "none"]

Init ==
    /\ db = EmptyStore.db
    /\ sqlite_sequence = EmptyStore.sqlite_sequence
    /\ openConns = 0
    /\ last = NoCall
    /\ now = <<0, 0>>
    /\ inflight = NoRequest

Cur == Store(db, sqlite_sequence)

\* the committed store stays within the model's bounds
InBounds(st) == \A t \in Tables : st.sqlite_sequence[t] <= MaxRowid

Commit(st) ==
    /\ InBounds(st)
    /\ db' = st.db
    /\ sqlite_sequence' = st.sqlite_sequence

\* the interpreter finalizes a connection object nothing refers to any more
Finalize ==
    /\ openConns > 0
    /\ openConns' = openConns - 1
    /\ UNCHANGED <<db, sqlite_sequence, last, now, inflight>>

\* create_category(name, description)
create_category(name) ==
    /\ openConns < MaxOpenConns
    /\ LET r == Insert(Cur, "categories", [name |-> name, description |-> ""])
           exc == IF r.ok THEN "" ELSE "IntegrityError"
       IN /\ Commit(ConnectionExit(Cur, r.st, exc))
          /\ last' = [op |-> "create_category", name |-> name,
                      outcome |-> IF r.ok THEN "id" ELSE exc, id |-> r.id]
    /\ openConns' = get_connection(openConns)
    /\ UNCHANGED <<now, inflight>>

\* create_product(product_data)
create_product(product_data) ==
    IF ~(required_fields \subseteq DOMAIN product_data)
    THEN /\ last' = [op |-> "create_product", data |-> product_data,
                     outcome |-> "ValueError", id |-> 0]
         /\ UNCHANGED <<db, sqlite_sequence, openConns, now, inflight>>
    ELSE /\ openConns < MaxOpenConns
         /\ LET r == Insert(Cur, "products", ProductRow(product_data))
                exc == IF r.ok THEN "" ELSE "IntegrityError"
            IN /\ Commit(ConnectionExit(Cur, r.st, exc))
               /\ last' = [op |-> "create_product", data |-> product_data,
                           outcome |-> IF r.ok THEN "id" ELSE exc, id |-> r.id]
         /\ openConns' = get_connection(openConns)
         /\ UNCHANGED <<now, inflight>>

RECURSIVE BatchInsert(_, _, _)
\* the for loop of batch_create_products from entry i on: the exception that
\* ends it ("" when it runs to the end), the entry that raised, the store
BatchInsert(st, products, i) ==
    IF i > Len(products) THEN [exc |-> "", k |-> 0, st |-> st]
    ELSE IF ~(required_fields \subseteq DOMAIN products[i])
    THEN [exc |-> "KeyError", k |-> i, st |-> st]
    ELSE LET r == Insert(st, "products", ProductRow(products[i])) IN
         IF r.ok THEN BatchInsert(r.st, products, i + 1)
         ELSE [exc |-> "IntegrityError", k |-> i, st |-> st]

\* batch_create_products(products)
batch_create_products(products) ==
    /\ openConns < MaxOpenConns
    /\ LET r == BatchInsert(Cur, products, 1) IN
       /\ LET left == ConnectionExit(Cur, r.st, r.exc) IN
          Commit(IF r.exc = "IntegrityError" THEN rollback(Cur, left) ELSE left)
       /\ last' = [op |-> "batch_create_products", n |-> Len(products), k |-> r.k,
                   outcome |-> CASE r.exc = "" -> "True"
                                 [] r.exc = "IntegrityError" -> "False"
                                 [] OTHER -> r.exc]
    /\ openConns' = get_connection(openConns)
    /\ UNCHANGED <<now, inflight>>

\* a whitelist that lets the key column through
update_whitelist_WithKey ==
    {"name", "description", "price", "stock_quantity", "category_id", "product_id"}

\* the fields update_product copies into its SET clause
update_whitelist == {"name", "description", "price", "stock_quantity", "category_id"}

\* UPDATE products SET <fields of data> WHERE product_id = id
UpdateRow(row, data, fields) ==
    [f \in DOMAIN row |-> IF f \in fields THEN data[f] ELSE row[f]]

\* update_product(product_id, update_data)
update_product(product_id, update_data) ==
    /\ openConns < MaxOpenConns
    /\ LET fields == DOMAIN update_data \cap update_whitelist
           found == product_id \in Ids(Cur, "products")
           row == UpdateRow(db["products"][product_id], update_data, fields)
           ok == /\ RowConstraintsOK(Cur, "products", product_id, row)
                 /\ RowForeignKeysOK(Cur, "products", row)
           after == Store([db EXCEPT !["products"][product_id] = row], sqlite_sequence)
       IN IF ~found \/ fields = {}
          THEN /\ Commit(ConnectionExit(Cur, Cur, ""))
               /\ last' = [op |-> "update_product", id |-> product_id, data |-> update_data,
                           outcome |-> "False",
                           why |-> IF ~found THEN "not found" ELSE "no fields"]
          ELSE /\ Commit(ConnectionExit(Cur, after, IF ok THEN "" ELSE "IntegrityError"))
               /\ last' = [op |-> "update_product", id |-> product_id, data |-> update_data,
                           outcome |-> IF ok THEN "True" ELSE "False",
                           why |-> IF ok THEN "" ELSE "IntegrityError"]
    /\ openConns' = get_connection(openConns)
    /\ UNCHANGED <<now, inflight>>

\* price * (1 + ? / 100) in hundredths of a cent: with an INTEGER parameter
\* `? / 100` is SQLite's integer division
ScaledPrice(price, pct) ==
    IF pct.type = "int" THEN price * 100 * (1 + TruncDiv(pct.v, 100))
    ELSE price * (100 + pct.v)

\* ROUND(price * (1 + ? / 100), 2)
NewPrice(price, pct) == RoundCents(ScaledPrice(price, pct))

\* bulk_update_prices(category_id, increase_percent)
bulk_update_prices(category_id, increase_percent) ==
    /\ openConns < MaxOpenConns
    /\ LET P == db["products"]
           hit == {p \in DOMAIN P : P[p].category_id = category_id}
           Q == [p \in DOMAIN P |->
                    IF p \in hit
                    THEN [P[p] EXCEPT !.price = NewPrice(@, increase_percent)]
                    ELSE P[p]]
           ok == \A p \in hit : RowConstraintsOK(Cur, "products", p, Q[p])
           after == Store([db EXCEPT !["products"] = Q], sqlite_sequence)
       IN /\ \A p \in hit : Q[p].price <= MaxPrice
          /\ LET left == ConnectionExit(Cur, after, IF ok THEN "" ELSE "IntegrityError") IN
             Commit(IF ok THEN left ELSE rollback(Cur, left))
          /\ last' = [op |-> "bulk_update_prices", category_id |-> category_id,
                      pct |-> increase_percent,
                      outcome |-> IF ok THEN "True" ELSE "False"]
    /\ openConns' = get_connection(openConns)
    /\ UNCHANGED <<now, inflight>>

RECURSIVE InsertJsonItems(_, _, _, _)
\* the loop of import_json_to_table over _insert_json_item from item i on
InsertJsonItems(st, t, data, i) ==
    IF i > Len(data) THEN [exc |-> "", st |-> st]
    ELSE LET r == Insert(st, t, ItemRow(t, data[i])) IN
         IF r.ok THEN InsertJsonItems(r.st, t, data, i + 1)
         ELSE [exc |-> "IntegrityError", st |-> st]

\* import_json_to_table(json_file, table_name)
import_json_to_table(file) ==
    /\ openConns < MaxOpenConns
    /\ LET r == InsertJsonItems(Cur, file.table, file.data, 1)
           left == ConnectionExit(Cur, r.st, r.exc)
       IN /\ Commit(IF r.exc = "" THEN left ELSE rollback(Cur, left))
          /\ last' = [op |-> "import_json_to_table", table |-> file.table,
                      outcome |-> IF r.exc = "" THEN "True" ELSE "False"]
    /\ openConns' = get_connection(openConns)
    /\ UNCHANGED <<now, inflight>>

\* a reference check that never finds an order item
order_count_Unchecked(st, product_id) == 0

\* SELECT COUNT(*) FROM order_items WHERE product_id = ?
order_count(st, product_id) == Cardinality(ItemsOfProduct(st, product_id))

\* delete_product(product_id)
delete_product(product_id) ==
    /\ openConns < MaxOpenConns
    /\ IF order_count(Cur, product_id) > 0
       THEN /\ Commit(ConnectionExit(Cur, Cur, ""))
            /\ last' = [op |-> "delete_product", id |-> product_id, outcome |-> "False"]
       ELSE LET r == DeleteProduct(Cur, product_id) IN
            /\ Commit(ConnectionExit(Cur, r.st, IF r.ok THEN "" ELSE "IntegrityError"))
            /\ last' = [op |-> "delete_product", id |-> product_id,
                        outcome |-> IF r.ok THEN "True" ELSE "False"]
    /\ openConns' = get_connection(openConns)
    /\ UNCHANGED <<now, inflight>>

\* truncate_table(table_name)
truncate_table(table_name) ==
    IF table_name \notin allowed_tables
    THEN /\ last' = [op |-> "truncate_table", table |-> table_name, outcome |-> "False",
                     seq_before |-> 0]
         /\ UNCHANGED <<db, sqlite_sequence, openConns, now, inflight>>
    ELSE /\ openConns < MaxOpenConns
         /\ LET r == DeleteAll(Cur, table_name)
                exc == IF r.ok THEN "" ELSE "IntegrityError"
                left == ConnectionExit(Cur, DeleteSequence(r.st, table_name), exc)
            IN /\ Commit(IF r.ok THEN left ELSE rollback(Cur, left))
               /\ last' = [op |-> "truncate_table", table |-> table_name,
                           outcome |-> IF r.ok THEN "True" ELSE "False",
                           seq_before |-> sqlite_sequence[table_name]]
         /\ openConns' = get_connection(openConns)
         /\ UNCHANGED <<now, inflight>>

RECURSIVE SumQuantity(_, _)
\* SUM(oi.quantity) over the order items I
SumQuantity(items, I) ==
    IF I = {} THEN 0
    ELSE LET i == CHOOSE x \in I : TRUE IN items[i].quantity + SumQuantity(items, I \ {i})

RECURSIVE SumSubtotal(_, _)
\* SUM(oi.subtotal) over the order items I
SumSubtotal(items, I) ==
    IF I = {} THEN 0
    ELSE LET i == CHOOSE x \in I : TRUE IN subtotal(items[i]) + SumSubtotal(items, I \ {i})

\* c.name of LEFT JOIN categories c ON p.category_id = c.category_id
CategoryName(st, category_id) ==
    IF category_id \in Ids(st, "categories")
    THEN Rows(st, "categories")[category_id].name ELSE NULL

\* the order items the joins of product_sales leave in the group of product
\* p: LEFT JOIN order_items keeps every item of p, and the LEFT JOIN of
\* orders (with the status test in its ON clause) drops none of them
SalesItems(st, p) == ItemsOfProduct(st, p)

\* one row of the CTE product_sales; an aggregate over no item is NULL
\* (is_null), shown with the value 0
ProductSalesRow(st, p) ==
    LET I == SalesItems(st, p) IN
    [product_id |-> p,
     name |-> Rows(st, "products")[p].name,
     price |-> Rows(st, "products")[p].price,
     category_name |-> CategoryName(st, Rows(st, "products")[p].category_id),
     is_null |-> (I = {}),
     total_sold |-> SumQuantity(Rows(st, "order_items"), I),
     total_revenue |-> SumSubtotal(Rows(st, "order_items"), I)]

\* ORDER BY total_sold DESC, total_revenue DESC: a sorts strictly before b
\* (NULL sorts after every value in a descending order)
SortsBefore(a, b) ==
    \/ ~a.is_null /\ b.is_null
    \/ /\ ~a.is_null /\ ~b.is_null
       /\ \/ a.total_sold > b.total_sold
          \/ a.total_sold = b.total_sold /\ a.total_revenue > b.total_revenue

Min(a, b) == IF a <= b THEN a ELSE b

\* the results the query of get_popular_products may give: rows that tie
\* on both sort keys come in any order
PopularProducts(st, limit) ==
    LET R == {ProductSalesRow(st, p) : p \in Ids(st, "products")}
        n == Cardinality(R)
        sorted == {f \in [1 .. n -> R] :
                      /\ \A i, j \in 1 .. n : i # j => f[i] # f[j]
                      /\ \A i, j \in 1 .. n : i < j => ~SortsBefore(f[j], f[i])}
    IN {SubSeq(f, 1, Min(limit, n)) : f \in sorted}

\* get_popular_products(limit)
get_popular_products(limit) ==
    /\ openConns < MaxOpenConns
    /\ \E rows \in PopularProducts(Cur, limit) :
          last' = [op |-> "get_popular_products", limit |-> limit,
                   outcome |-> "rows", rows |-> rows]
    /\ Commit(ConnectionExit(Cur, Cur, ""))
    /\ openConns' = get_connection(openConns)
    /\ UNCHANGED <<now, inflight>>

\* a <= b for two texts as SQLite compares them, field by field from the
\* left: a text that is a prefix of another sorts before it
TextLE(a, b) ==
    \/ \E k \in 1 .. Min(Len(a), Len(b)) :
          /\ \A j \in 1 .. (k - 1) : a[j] = b[j]
          /\ a[k] < b[k]
    \/ /\ Len(a) <= Len(b)
       /\ \A j \in 1 .. Len(a) : a[j] = b[j]

\* the items of a report whose WHERE clause has no test of o.status
ReportItems_WithCancelled(st, start_date, end_date) ==
    {i \in Ids(st, "order_items") :
        LET item == Rows(st, "order_items")[i] IN
        /\ item.product_id \in Ids(st, "products")
        /\ Rows(st, "products")[item.product_id].category_id \in Ids(st, "categories")
        /\ item.order_id \in Ids(st, "orders")
        /\ start_date # NoDate
              => TextLE(start_date, Rows(st, "orders")[item.order_id].order_date)
        /\ end_date # NoDate
              => TextLE(Rows(st, "orders")[item.order_id].order_date, end_date)}

\* the order items the joins and the WHERE clause of get_sales_report keep:
\* the product, its category and the order exist (inner joins), the order
\* is not cancelled and its order_date is within the bounds that were given
ReportItems(st, start_date, end_date) ==
    {i \in Ids(st, "order_items") :
        LET item == Rows(st, "order_items")[i] IN
        /\ item.product_id \in Ids(st, "products")
        /\ Rows(st, "products")[item.product_id].category_id \in Ids(st, "categories")
        /\ item.order_id \in Ids(st, "orders")
        /\ Rows(st, "orders")[item.order_id].status # "cancelled"
        /\ start_date # NoDate
              => TextLE(start_date, Rows(st, "orders")[item.order_id].order_date)
        /\ end_date # NoDate
              => TextLE(Rows(st, "orders")[item.order_id].order_date, end_date)}

\* the row of GROUP BY c.category_id, c.name for category c over the items I
\* (avg_price, a REAL, is left out)
SalesReportRow(st, c, I) ==
    LET items == Rows(st, "order_items")
        prices == {items[i].unit_price : i \in I}
    IN [category_name |-> Rows(st, "categories")[c].name,
        items_sold |-> Cardinality(I),
        total_quantity |-> SumQuantity(items, I),
        total_revenue |-> SumSubtotal(items, I),
        max_price |-> MaxOf(prices),
        min_price |-> CHOOSE m \in prices : \A x \in prices : m <= x]

\* the results the query of get_sales_report may give: one row per category
\* that has an item, ORDER BY total_revenue DESC, ties in any order
SalesReport(st, start_date, end_date) ==
    LET I == ReportItems(st, start_date, end_date)
        CatOf(i) == Rows(st, "products")[Rows(st, "order_items")[i].product_id].category_id
        C == {CatOf(i) : i \in I}
        n == Cardinality(C)
        orders == {f \in [1 .. n -> C] : \A i, j \in 1 .. n : i # j => f[i] # f[j]}
        RowOf(c) == SalesReportRow(st, c, {i \in I : CatOf(i) = c})
    IN {r \in {[k \in 1 .. n |-> RowOf(f[k])] : f \in orders} :
           \A j, k \in 1 .. n : j < k => r[j].total_revenue >= r[k].total_revenue}

\* get_sales_report(start_date, end_date)
get_sales_report(start_date, end_date) ==
    /\ openConns < MaxOpenConns
    /\ \E rows \in SalesReport(Cur, start_date, end_date) :
          last' = [op |-> "get_sales_report", start_date |-> start_date,
                   end_date |-> end_date, outcome |-> "rows", rows |-> rows]
    /\ Commit(ConnectionExit(Cur, Cur, ""))
    /\ openConns' = get_connection(openConns)
    /\ UNCHANGED <<now, inflight>>

\* text LIKE '%s%' for the texts of the model, which have at most one
\* character: NULL matches nothing, '%%' matches every text
Like(text, s) == text # NULL /\ (s = "" \/ s = text)

\* the products the WHERE clause of get_products keeps
FilteredProducts(st, filters) ==
    {p \in Ids(st, "products") :
        LET row == Rows(st, "products")[p] IN
        /\ "category_id" \in DOMAIN filters => row.category_id = filters["category_id"]
        /\ "min_price" \in DOMAIN filters => row.price >= filters["min_price"]
        /\ "max_price" \in DOMAIN filters => row.price <= filters["max_price"]
        /\ "search" \in DOMAIN filters
              => Like(row.name, filters["search"]) \/ Like(row.description, filters["search"])}

\* SELECT p.*, c.name as category_name for product p
ProductListRow(st, p) ==
    LET row == Rows(st, "products")[p] IN
    [f \in DOMAIN row \cup {"product_id", "category_name"} |->
        CASE f = "product_id" -> p
          [] f = "category_name" -> CategoryName(st, row.category_id)
          [] OTHER -> row[f]]

\* the orders ORDER BY p.created_at DESC may put the products P in: the
\* query names no second sort key, rows of one created_at come in any order
CreatedAtDescending(st, P) ==
    LET n == Cardinality(P) IN
    {f \in [1 .. n -> P] :
        /\ \A i, j \in 1 .. n : i # j => f[i] # f[j]
        /\ \A i, j \in 1 .. n :
              i < j => TextLE(Rows(st, "products")[f[j]].created_at,
                              Rows(st, "products")[f[i]].created_at)}

\* LIMIT per_page OFFSET (page - 1) * per_page of the ordered rows f
Page(f, page, per_page) ==
    SubSeq(f, (page - 1) * per_page + 1, Min(page * per_page, Len(f)))

\* the results the query of get_products may give
ProductPages(st, filters, page, per_page) ==
    {[k \in DOMAIN Page(f, page, per_page) |-> ProductListRow(st, Page(f, page, per_page)[k])] :
        f \in CreatedAtDescending(st, FilteredProducts(st, filters))}

\* get_products(filters, page, per_page)
get_products(filters, page, per_page) ==
    /\ openConns < MaxOpenConns
    /\ \E rows \in ProductPages(Cur, filters, page, per_page) :
          last' = [op |-> "get_products", filters |-> filters, page |-> page,
                   per_page |-> per_page, outcome |-> "rows", rows |-> rows]
    /\ Commit(ConnectionExit(Cur, Cur, ""))
    /\ openConns' = get_connection(openConns)
    /\ UNCHANGED <<now, inflight>>

\* the orders a set of rows may be listed in
Orderings(S) ==
    {f \in [1 .. Cardinality(S) -> S] :
        \A i, j \in 1 .. Cardinality(S) : i # j => f[i] # f[j]}

\* GROUP_CONCAT(p.name, ', ') over the items of order o: the names of the
\* products the LEFT JOIN finds, in an order the engine chooses; << >> is the
\* NULL of an order without such an item
ProductNames(st, o) ==
    LET I == {i \in Ids(st, "order_items") :
                 /\ Rows(st, "order_items")[i].order_id = o
                 /\ Rows(st, "order_items")[i].product_id \in Ids(st, "products")}
    IN {[k \in DOMAIN f |->
            Rows(st, "products")[Rows(st, "order_items")[f[k]].product_id].name] :
        f \in Orderings(I)}

\* the results the query of get_customer_orders may give: one row per order
\* of the customer, ORDER BY o.order_date DESC
CustomerOrders(st, customer_id) ==
    LET O == {o \in Ids(st, "orders") : Rows(st, "orders")[o].customer_id = customer_id}
        sorted == {f \in Orderings(O) :
                      \A i, j \in DOMAIN f :
                         i < j => TextLE(Rows(st, "orders")[f[j]].order_date,
                                         Rows(st, "orders")[f[i]].order_date)}
        RowsOf(f) ==
            {r \in [DOMAIN f -> UNION {{[order_id |-> f[k],
                                         order_date |-> Rows(st, "orders")[f[k]].order_date,
                                         status |-> Rows(st, "orders")[f[k]].status,
                                         total_amount |-> Rows(st, "orders")[f[k]].total_amount,
                                         item_count |-> Cardinality({i \in Ids(st, "order_items") :
                                                          Rows(st, "order_items")[i].order_id = f[k]}),
                                         product_names |-> names] :
                                        names \in ProductNames(st, f[k])} : k \in DOMAIN f}] :
                \A k \in DOMAIN f : r[k].order_id = f[k]}
    IN UNION {RowsOf(f) : f \in sorted}

\* get_customer_orders(customer_id)
get_customer_orders(customer_id) ==
    /\ openConns < MaxOpenConns
    /\ \E rows \in CustomerOrders(Cur, customer_id) :
          last' = [op |-> "get_customer_orders", customer_id |-> customer_id,
                   outcome |-> "rows", rows |-> rows]
    /\ Commit(ConnectionExit(Cur, Cur, ""))
    /\ openConns' = get_connection(openConns)
    /\ UNCHANGED <<now, inflight>>

\* where the storage engine fails a call: sqlite3.connect of get_connection,
\* a statement, or the commit
FaultPoints == {"connect", "execute", "commit"}

\* the operations whose body is `try: with self.get_connection() as conn:`
ReadOperations ==
    {"get_products", "get_sales_report", "get_customer_orders", "get_popular_products"}

AtomicOperations == {"batch_create_products", "bulk_update_prices", "truncate_table"}

Operations ==
    ReadOperations \cup AtomicOperations
        \cup {"create_category", "create_product", "update_product", "delete_product",
              "import_json_to_table"}

\* what the except clause of the operation does with a sqlite3.Error: call
\* conn.rollback() and return False, return the operation's failure value,
\* or let the exception go (create_category catches IntegrityError only,
\* create_product raises again)
except_clause(op) ==
    CASE op \in AtomicOperations \cup {"import_json_to_table"} -> "rollback"
      [] op \in {"create_category", "create_product"} -> "raise"
      [] OTHER -> "return"

\* how the call ends when the engine raises sqlite3.OperationalError at the
\* fault point.  In the except clause `conn` is the local the with statement
\* binds: when get_connection itself raised it was never bound, and
\* conn.rollback() raises UnboundLocalError
FailureOutcome(op, fault) ==
    CASE except_clause(op) = "raise" -> "OperationalError"
      [] except_clause(op) = "rollback" /\ fault = "connect" -> "UnboundLocalError"
      [] op \in ReadOperations -> "rows"
      [] OTHER -> "False"

\* the stores the connection of the operation may hold uncommitted when the
\* engine fails it: nothing written yet, or the rows the statements before
\* the failing one wrote
UncommittedAtFailure(st, op, fault) ==
    LET first == Insert(st, "products", ProductRow(GoodProduct1)).st
        emptied == DeleteAll(st, "products").st
        raised == Store([st.db EXCEPT !["products"] =
                            [p \in DOMAIN @ |->
                                [@[p] EXCEPT !.price = NewPrice(@, [type |-> "float", v |-> 10])]]],
                        st.sqlite_sequence)
    IN CASE fault = "connect" -> {st}
         [] op = "batch_create_products" ->
                IF fault = "execute" THEN {st, first}
                ELSE {Insert(first, "products", ProductRow(GoodProduct2)).st}
         [] op = "truncate_table" ->
                IF fault = "execute" THEN {st, emptied}
                ELSE {DeleteSequence(emptied, "products")}
         [] op = "bulk_update_prices" ->
                IF fault = "execute" THEN {st} ELSE {raised}
         [] OTHER -> {st}

\* a call of operation op during which the engine fails at the fault point
storage_failure(op, fault) ==
    /\ fault # "connect" => openConns < MaxOpenConns
    /\ last' = IF op \in ReadOperations
               THEN [op |-> op, fault |-> fault, outcome |-> FailureOutcome(op, fault),
                     rows |-> << >>]
               ELSE [op |-> op, fault |-> fault, outcome |-> FailureOutcome(op, fault)]
    /\ \E uncommitted \in UncommittedAtFailure(Cur, op, fault) :
          LET left == ConnectionExit(Cur, uncommitted, "OperationalError") IN
          Commit(IF except_clause(op) = "rollback" /\ fault # "connect"
                 THEN rollback(Cur, left) ELSE left)
    /\ openConns' = IF fault = "connect" THEN openConns ELSE get_connection(openConns)
    /\ UNCHANGED <<now, inflight>>

\* delete_product(product_id) on a thread of its own, up to the count check:
\* the SELECT runs outside a transaction and leaves no lock behind.  With
\* references the call returns False; without, the DELETE is still to come
delete_product_check(product_id) ==
    /\ inflight = NoRequest
    /\ IF order_count(Cur, product_id) > 0
       THEN /\ openConns < MaxOpenConns
            /\ Commit(ConnectionExit(Cur, Cur, ""))
            /\ last' = [op |-> "delete_product", id |-> product_id, outcome |-> "False"]
            /\ openConns' = get_connection(openConns)
            /\ UNCHANGED inflight
       ELSE /\ inflight' = [op |-> "delete_product", id |-> product_id]
            /\ UNCHANGED <<db, sqlite_sequence, last, openConns>>
    /\ UNCHANGED now

\* the rest of the delete_product under way: DELETE, commit, return; its
\* connection stays open as after every call
delete_product_delete ==
    /\ inflight.op = "delete_product"
    /\ openConns < MaxOpenConns
    /\ LET r == DeleteProduct(Cur, inflight.id) IN
       /\ Commit(ConnectionExit(Cur, r.st, IF r.ok THEN "" ELSE "IntegrityError"))
       /\ last' = [op |-> "delete_product", id |-> inflight.id,
                   outcome |-> IF r.ok THEN "True" ELSE "False"]
    /\ openConns' = get_connection(openConns)
    /\ inflight' = NoRequest
    /\ UNCHANGED now

\* the clock advances within the day or to the start of the next day
Tick ==
    /\ \E t \in {<<now[1], now[2] + 1>>, <<now[1] + 1, 0>>} :
          /\ t[1] <= MaxClock /\ t[2] <= MaxClock
          /\ now' = t
    /\ UNCHANGED <<db, sqlite_sequence, openConns, last, inflight>>

Next ==
    \/ \E name \in CategoryNames : create_category(name)
    \/ \E d \in ProductDatas : create_product(d)
    \/ \E b \in Batches : batch_create_products(b)
    \/ \E p \in ProductIds, d \in UpdateDatas : update_product(p, d)
    \/ \E c \in CategoryIds, pct \in Percents : bulk_update_prices(c, pct)
    \/ Finalize

\* the product catalog: categories and products
Spec == Init /\ [][Next]_vars

\* products, the orders that reference them, deletion and truncation
NextOrders ==
    \/ create_product(GoodProduct1)
    \/ \E file \in OrdersFiles : import_json_to_table(file)
    \/ \E p \in ProductIds : delete_product(p)
    \/ \E t \in TableNames : truncate_table(t)
    \/ Finalize

SpecOrders == Init /\ [][NextOrders]_vars

\* products, orders and their items, and the reports over them
NextReport ==
    \/ create_product(GoodProduct1)
    \/ \E file \in ReportFiles : import_json_to_table(file)
    \/ \E limit \in Limits : get_popular_products(limit)
    \/ Finalize

SpecReport == Init /\ [][NextReport]_vars

\* categories, products, orders and their items, and the sales report over
\* them
NextSales ==
    \/ \E name \in SalesCategoryNames : create_category(name)
    \/ batch_create_products(BatchWith(2, 0, GoodProduct1))
    \/ \E file \in SalesFiles : import_json_to_table(file)
    \/ \E r \in DateRanges : get_sales_report(r[1], r[2])
    \/ Finalize

SpecSales == Init /\ [][NextSales]_vars

\* products created one by one and in batches as the clock advances, and the
\* paged listing of them
NextPaging ==
    \/ create_product(GoodProduct1)
    \/ batch_create_products(BatchWith(2, 0, GoodProduct1))
    \/ \E f \in ProductFilters, page \in Pages, per_page \in PerPages :
          get_products(f, page, per_page)
    \/ Tick
    \/ Finalize

SpecPaging == Init /\ [][NextPaging]_vars

\* the operations over a small store, each also with the engine failing it
NextFault ==
    \/ create_product(GoodProduct1)
    \/ \E file \in FaultFiles : import_json_to_table(file)
    \/ get_products([category_id |-> 1], 1, 2)
    \/ get_sales_report(NoDate, NoDate)
    \/ \E c \in {1, 2} : get_customer_orders(c)
    \/ get_popular_products(5)
    \/ \E p \in {1, MaxRowid + 1} : update_product(p, [price |-> 2000])
    \/ \E op \in Operations, fault \in FaultPoints : storage_failure(op, fault)
    \/ Finalize

SpecFault == Init /\ [][NextFault]_vars

\* delete_product on one thread, its count check and its DELETE as separate
\* steps, and the requests of other threads between them
NextRace ==
    \/ create_product(GoodProduct1)
    \/ \E file \in OrdersFiles : import_json_to_table(file)
    \/ \E p \in ProductIds : delete_product_check(p)
    \/ delete_product_delete
    \/ Finalize

SpecRace == Init /\ [][NextRace]_vars

\* ---------------------------------------------------------------- claims
\* a step that is a call of a public operation (Finalize is the only step
\* that lowers openConns)
IsCall == openConns' >= openConns

StoreUnchanged == db' = db /\ sqlite_sequence' = sqlite_sequence

\* C1: when an entry of the batch fails, at whatever position and whether
\* batch_create_products ends by return or by exception, the products table
\* is what it was before the call
C1_FailedBatchLeavesProducts ==
    [][(IsCall /\ last'.op = "batch_create_products" /\ last'.k > 0)
          => db'["products"] = db["products"]]_vars

\* a batch of three failed at its last entry, after two inserts, by exception
C1_Witness ==
    /\ last.op = "batch_create_products"
    /\ last.n = 3 /\ last.k = 3
    /\ last.outcome = "KeyError"

\* C2: batch_create_products returns False whenever an entry fails to
\* insert, for any cause, and True only when every entry was inserted
C2_FailedBatchReturnsFalse ==
    last.op = "batch_create_products"
        => /\ last.k > 0 => last.outcome = "False"
           /\ last.outcome = "True" => last.k = 0

\* C3: delete_product fails and changes nothing when an order item
\* references the product, and otherwise succeeds and leaves no product row
\* with that id
C3_DeleteRefusedIffReferenced ==
    [][(IsCall /\ last'.op = "delete_product")
          => IF \E i \in DOMAIN db["order_items"] :
                    db["order_items"][i].product_id = last'.id
             THEN last'.outcome = "False" /\ StoreUnchanged
             ELSE /\ last'.outcome = "True"
                  /\ last'.id \notin DOMAIN db'["products"]]_vars

\* the deletion of an existing, referenced product was refused
C3_Witness ==
    /\ last.op = "delete_product"
    /\ last.outcome = "False"
    /\ last.id \in DOMAIN db["products"]
    /\ \E i \in DOMAIN db["order_items"] : db["order_items"][i].product_id = last.id

\* C4: truncate_table of a whitelisted table empties it and resets its
\* sequence in one step, so the next row created in it gets identifier 1;
\* with any other name it returns False and changes nothing
C4_TruncateResets ==
    /\ [][(IsCall /\ last'.op = "truncate_table")
             => IF last'.table \in {"products", "categories", "customers",
                                    "orders", "order_items"}
                THEN /\ last'.outcome = "True"
                     /\ DOMAIN db'[last'.table] = {}
                     /\ sqlite_sequence'[last'.table] = 0
                ELSE last'.outcome = "False" /\ StoreUnchanged]_vars
    /\ [][(/\ IsCall
           /\ last.op = "truncate_table" /\ last.outcome = "True"
           /\ DOMAIN db'[last.table] # {})
             => DOMAIN db'[last.table] = {1}]_vars

\* the products table was truncated after two identifiers had been assigned
C4_Witness ==
    /\ last.op = "truncate_table"
    /\ last.table = "products"
    /\ last.outcome = "True"
    /\ last.seq_before >= 2

\* C5: bulk_update_prices replaces every price of the category by
\* price * (1 + pct / 100) rounded to the cent (so +10 % twice compounds
\* 20.00 to 22.00 to 24.20) and leaves the other categories alone
C5_BulkUpdateScalesPrices ==
    [][(IsCall /\ last'.op = "bulk_update_prices" /\ last'.outcome = "True")
          => \A p \in DOMAIN db["products"] :
                db'["products"][p].price =
                    IF db["products"][p].category_id = last'.category_id
                    THEN RoundCents(db["products"][p].price * (100 + last'.pct.v))
                    ELSE db["products"][p].price]_vars

\* C6: every stored product has price >= 0 and stock_quantity >= 0 after
\* any call, and a rejected call changes no row
C6_PriceAndStockNonNegative ==
    [][/\ \A p \in DOMAIN db'["products"] :
             /\ db'["products"][p].price >= 0
             /\ db'["products"][p].stock_quantity >= 0
       /\ (IsCall /\ last'.outcome \in {"False", "IntegrityError", "KeyError", "ValueError"})
             => StoreUnchanged]_vars

\* a bulk update of a non-empty category by less than -100 % was rejected
C6_Witness ==
    /\ last.op = "bulk_update_prices"
    /\ last.pct.v < -100
    /\ last.outcome = "False"
    /\ \E p \in DOMAIN db["products"] :
          /\ db["products"][p].category_id = last.category_id
          /\ db["products"][p].price > 0

\* C7: update_product returns False and changes nothing when the product
\* does not exist or no key of the data is whitelisted; when it returns
\* True the same product ids exist, every other row and table is as before
\* and the target row differs only in whitelisted keys of the data
C7_UpdateFrame ==
    [][(IsCall /\ last'.op = "update_product")
          => LET id == last'.id
                 data == last'.data
                 ok == {"name", "description", "price", "stock_quantity", "category_id"}
             IN /\ id \notin DOMAIN db["products"]
                      => last'.outcome = "False" /\ StoreUnchanged
                /\ DOMAIN data \cap ok = {}
                      => last'.outcome = "False" /\ StoreUnchanged
                /\ last'.outcome = "False" => StoreUnchanged
                /\ last'.outcome = "True"
                      => /\ sqlite_sequence' = sqlite_sequence
                         /\ DOMAIN db'["products"] = DOMAIN db["products"]
                         /\ \A t \in Tables \ {"products"} : db'[t] = db[t]
                         /\ \A p \in DOMAIN db["products"] \ {id} :
                               db'["products"][p] = db["products"][p]
                         /\ \A f \in DOMAIN db["products"][id] :
                               db'["products"][id][f] =
                                   IF f \in DOMAIN data \cap ok THEN data[f]
                                   ELSE db["products"][id][f]]_vars

\* an update that carried a key outside the whitelist succeeded
C7_Witness ==
    /\ last.op = "update_product"
    /\ last.outcome = "True"
    /\ "product_id" \in DOMAIN last.data

\* C8: no operation lets a raw storage-engine exception escape to its caller
C8_NoEngineExceptionEscapes == last.outcome # "IntegrityError"

\* C9: between calls no connection opened by an operation is still open
C9_NoConnectionLeftOpen == openConns = 0

\* every order item references an existing order
ItemsHaveOrders ==
    \A i \in DOMAIN db["order_items"] :
        db["order_items"][i].order_id \in DOMAIN db["orders"]

\* the order items of product p that belong to a non-cancelled order
NonCancelledItems(p) ==
    {i \in DOMAIN db["order_items"] :
        /\ db["order_items"][i].product_id = p
        /\ db["order_items"][i].order_id \in DOMAIN db["orders"]
        /\ db["orders"][db["order_items"][i].order_id].status # "cancelled"}

\* C10: each row of get_popular_products carries the sums of quantity and
\* of quantity * unit_price over the product's items in non-cancelled
\* orders (NULL when it has none), rows come by total_sold then
\* total_revenue descending, and at most `limit` of them
C10_PopularCountsNonCancelled ==
    (last.op = "get_popular_products" /\ ItemsHaveOrders)
        => /\ Len(last.rows) <= last.limit
           /\ \A k \in 1 .. Len(last.rows) :
                 LET row == last.rows[k]
                     I == NonCancelledItems(row.product_id)
                 IN /\ row.is_null = (I = {})
                    /\ row.total_sold = SumQuantity(db["order_items"], I)
                    /\ row.total_revenue = SumSubtotal(db["order_items"], I)
           /\ \A j, k \in 1 .. Len(last.rows) :
                 j < k => ~SortsBefore(last.rows[k], last.rows[j])

\* the order items of category c's products that belong to a non-cancelled
\* order whose date lies between the bounds that were given, the bounds
\* included
CategoryItemsInRange(c, start_date, end_date) ==
    {i \in DOMAIN db["order_items"] :
        LET item == db["order_items"][i] IN
        /\ item.product_id \in DOMAIN db["products"]
        /\ db["products"][item.product_id].category_id = c
        /\ item.order_id \in DOMAIN db["orders"]
        /\ db["orders"][item.order_id].status # "cancelled"
        /\ start_date # NoDate
              => ~TextLE(db["orders"][item.order_id].order_date, start_date)
                    \/ db["orders"][item.order_id].order_date = start_date
        /\ end_date # NoDate
              => ~TextLE(end_date, db["orders"][item.order_id].order_date)
                    \/ db["orders"][item.order_id].order_date = end_date}

RowIds(rows) == {rows[k].product_id : k \in 1 .. Len(rows)}

\* a call of get_products that follows another with the same filters and
\* page size: the same page has the same rows in the same order, the next
\* page shares no row with the one before it, and pages 1 and 2 together
\* hold every filtered row when page 2 is not full
PagingRepeatable ==
    (/\ IsCall
     /\ last.op = "get_products" /\ last'.op = "get_products"
     /\ last'.filters = last.filters /\ last'.per_page = last.per_page)
        => /\ last'.page = last.page => last'.rows = last.rows
           /\ last'.page = last.page + 1
                 => /\ RowIds(last'.rows) \cap RowIds(last.rows) = {}
                    /\ (last.page = 1 /\ Len(last'.rows) < last.per_page)
                          => RowIds(last'.rows) \cup RowIds(last.rows)
                                 = FilteredProducts(Cur, last.filters)

\* C12: get_products returns the rows at positions (page-1)*per_page+1 ..
\* page*per_page of the filtered products in creation time descending
\* order, and with the store unchanged a repeated call returns the same
\* rows in the same order, the next page shares no row with the page before
\* it, and two pages that reach the end cover every filtered row
C12_PagingDeterministic ==
    /\ [][(IsCall /\ last'.op = "get_products")
             => \E f \in CreatedAtDescending(Cur, FilteredProducts(Cur, last'.filters)) :
                   LET page == Page(f, last'.page, last'.per_page) IN
                   /\ Len(last'.rows) = Len(page)
                   /\ \A k \in 1 .. Len(page) : last'.rows[k].product_id = page[k]]_vars
    /\ [][PagingRepeatable]_vars

\* no two products have the same creation time
DistinctCreationTimes ==
    \A p, q \in DOMAIN db["products"] :
        p # q => db["products"][p].created_at # db["products"][q].created_at

\* the paging of C12 for products that all differ in creation time
C12_DistinctCreationTimes == [][DistinctCreationTimes => PagingRepeatable]_vars

\* the engine failed the call
Failed(call) == "fault" \in DOMAIN call

\* the call ran correctly and no row matched
NoRowMatched(call) ==
    /\ ~Failed(call)
    /\ \/ call.op \in ReadOperations /\ call.rows = << >>
       \/ call.op = "update_product" /\ call.why = "not found"

\* what the caller gets back: the rows, or True / False
ReturnValue(call) == IF call.outcome = "rows" THEN call.rows ELSE call.outcome

\* a failed call and a call of the same operation that matched no row
\* return different values
Distinguishable(a, b) ==
    (a.op = b.op /\ Failed(a) /\ NoRowMatched(b)) => ReturnValue(a) # ReturnValue(b)

\* C13: for get_products, get_sales_report, get_customer_orders,
\* get_popular_products and update_product, a call the storage engine
\* failed never returns the value that a call of the same operation returns
\* when it ran correctly and no row matched
C13_FailureDistinguishable ==
    [][(IsCall /\ last'.op \in ReadOperations \cup {"update_product"})
          => Distinguishable(last, last') /\ Distinguishable(last', last)]_vars

\* C15: when the engine fails batch_create_products, bulk_update_prices or
\* truncate_table at any point (connect, statement, commit), the call raises
\* nothing, returns False and leaves the store as it was
C15_FailureRollsBackCleanly ==
    [][(IsCall /\ last'.op \in AtomicOperations /\ Failed(last'))
          => last'.outcome = "False" /\ StoreUnchanged]_vars

\* C15 for the failures after the connection was opened
C15_AfterConnect ==
    [][(IsCall /\ last'.op \in AtomicOperations /\ Failed(last')
           /\ last'.fault # "connect")
          => last'.outcome = "False" /\ StoreUnchanged]_vars

\* C14: no call of delete_product, truncate_table or create_product removes
\* a product that an order item references, and the product created after
\* a truncation of products does not take an identifier that an existing
\* order item references
C14_ItemsKeepTheirProduct ==
    [][(IsCall /\ last'.op \in {"delete_product", "truncate_table", "create_product"})
          => /\ \A i \in DOMAIN db["order_items"] \cap DOMAIN db'["order_items"] :
                   db["order_items"][i].product_id \in DOMAIN db["products"]
                      => db["order_items"][i].product_id \in DOMAIN db'["products"]
             /\ (/\ last.op = "truncate_table" /\ last.table = "products"
                 /\ last'.op = "create_product" /\ last'.outcome = "id")
                   => \A i \in DOMAIN db["order_items"] :
                         db["order_items"][i].product_id # last'.id]_vars

\* the part of C14 about delete_product alone
C14_DeleteKeepsReferenced ==
    [][(IsCall /\ last'.op = "delete_product")
          => \A i \in DOMAIN db["order_items"] :
                db["order_items"][i].product_id \in DOMAIN db["products"]
                   => db["order_items"][i].product_id \in DOMAIN db'["products"]]_vars

\* C16: whatever another request does between the count check and the
\* DELETE of delete_product(p), when the call returns True and has removed
\* p no order item references p
C16_DeleteAtomicWithCheck ==
    [][(/\ inflight.op = "delete_product" /\ inflight' = NoRequest
        /\ last'.outcome = "True"
        /\ inflight.id \in DOMAIN db["products"])
          => \A i \in DOMAIN db'["order_items"] :
                db'["order_items"][i].product_id # inflight.id]_vars

====
